---- MODULE Spec2Model ----
(***************************************************************************)
(* The file-to-DAG pipeline of ipfs-unixfs-importer:                       *)
(*   dag-builder/file/buffer-importer.js  (the leaf builder)               *)
(*   dag-builder/file/index.js            (buildFileBatch, reducer,        *)
(*                                         fileBuilder)                    *)
(* A buffer is modelled by what the pipeline reads of it: its byte length  *)
(* and, for an encoded dag-pb node, the message it encodes.  A CID is the  *)
(* codec, the version and the hashed bytes (a collision-free hasher).      *)
(***************************************************************************)
EXTENDS Integers, Sequences, FiniteSets, TLC

(* ------------------------------ bounds -------------------------------- *)
MaxChunks == 3
MaxChunkLen == 2
MaxConcurrency == 2
MaxChildren == 2
MaxReduces == 2

(* ----------------------------- constants ------------------------------ *)
Undefined == "undefined"
RawCode == "raw"
DagPbCode == "dag-pb"
FilePath == "a/file"
StrategyNames == {"flat", "balanced", "trickle"}

VARIABLES
  file,      \* the File: content (the chunk stream), path, mtime, mode
  options,   \* ImporterOptions
  store,     \* the block store: the set of CIDs whose bytes it holds
  pos,       \* chunks bufferImporter has consumed from file.content
  tasks,     \* parallelBatch: the tasks of the batch in flight
  nexti,     \* parallelBatch: position in the batch of the next result
  leaves,    \* heap: the descriptor object each finished task returned
  nodes,     \* heap: the descriptor objects the reducer returned
  count,     \* buildFileBatch: count
  previous,  \* buildFileBatch: previous (a reference, or NoRef)
  entry,     \* buildFileBatch: entry held across the yield of line 52
  bpc,       \* buildFileBatch: where the generator is suspended
  yielded,   \* the references buildFileBatch has yielded, in order
  src,       \* strategy: descriptors received and not yet given a parent
  outq,      \* strategy (balanced): the parents built at this level
  ended,     \* strategy: the leaf sequence has reported its end
  spc,       \* strategy: its position
  puts,      \* history: the number of block.put calls made
  overtaken, \* history: some task finished before an earlier one did
  calls,     \* history: one record per reducer call
  progress,  \* history: what options.progress was called with, in order
  root,      \* the descriptor the build returned (a reference)
  error      \* the error the build was rejected with

vars == <<file, options, store, pos, tasks, nexti, leaves, nodes, count,
          previous, entry, bpc, yielded, src, outq, ended, spc, puts,
          overtaken, calls, progress, root, error>>

(* ----------------------------- references ----------------------------- *)
NoRef == [k |-> "none", i |-> 0]
LeafRef(i) == [k |-> "leaf", i |-> i]
NodeRef(i) == [k |-> "node", i |-> i]

(* ------------------------------ helpers ------------------------------- *)
RECURSIVE SumSeq(_)
SumSeq(s) == IF s = <<>> THEN 0 ELSE Head(s) + SumSeq(Tail(s))

Min(a, b) == IF a < b THEN a ELSE b

SeqsUpTo(S, n) == UNION {[1..m -> S] : m \in 0..n}

(* ------------------- ipfs-unixfs: the UnixFS object ------------------- *)
\* data is the length of the inline buffer, or NoData when the field is
\* undefined (an empty buffer is a defined, truthy value of length 0)
NoData == -1

NoUnixfs ==
  [present |-> FALSE, type |-> Undefined, data |-> NoData,
   blockSizes |-> <<>>, mtime |-> Undefined, mode |-> Undefined]

\* new UnixFS({ type, data, mtime, mode })
NewUnixFS(type, data, mtime, mode) ==
  [present |-> TRUE, type |-> type, data |-> data,
   blockSizes |-> <<>>, mtime |-> mtime, mode |-> mode]

\* UnixFS.fileSize(): the declared logical length
fileSize(u) == SumSeq(u.blockSizes) + (IF u.data # NoData THEN u.data ELSE 0)

\* UnixFS.addBlockSize(size)
addBlockSize(u, size) == [u EXCEPT !.blockSizes = Append(@, size)]

\* UnixFS.marshal(): the message the object serializes to
marshal(u) ==
  [Type |-> u.type, Data |-> u.data, filesize |-> fileSize(u),
   blocksizes |-> u.blockSizes, mtime |-> u.mtime, mode |-> u.mode]

NoMessage ==
  [Type |-> Undefined, Data |-> NoData, filesize |-> 0,
   blocksizes |-> <<>>, mtime |-> Undefined, mode |-> Undefined]

(* -------------------- @ipld/dag-pb: encode(prepare) ------------------- *)
VarintLen(n) == IF n < 128 THEN 1 ELSE 2

RECURSIVE VarintsLen(_)
VarintsLen(s) ==
  IF s = <<>> THEN 0 ELSE 1 + VarintLen(Head(s)) + VarintsLen(Tail(s))

\* the byte length of a marshalled UnixFS message
MessageLen(m) ==
  2 + (IF m.Data # NoData THEN 1 + VarintLen(m.Data) + m.Data ELSE 0)
    + 1 + VarintLen(m.filesize)
    + VarintsLen(m.blocksizes)
    + (IF m.mtime # Undefined THEN 4 ELSE 0)
    + (IF m.mode # Undefined THEN 3 ELSE 0)

CidLen(cid) == IF cid.version = 0 THEN 34 ELSE 36

\* the byte length of one encoded PBLink { Hash, Name: '', Tsize }
LinkLen(l) == (2 + CidLen(l.Hash)) + 2 + (1 + VarintLen(l.Tsize))

RECURSIVE LinksLen(_)
LinksLen(ls) ==
  IF ls = <<>> THEN 0
  ELSE 1 + VarintLen(LinkLen(Head(ls))) + LinkLen(Head(ls)) + LinksLen(Tail(ls))

\* a chunk as it comes from file.content: n raw bytes
RawBytes(n) == [pb |-> FALSE, length |-> n, Data |-> NoMessage, Links |-> <<>>]

\* encode(prepare({ Data, Links })): the bytes of a dag-pb node
encode(data, links) ==
  [pb |-> TRUE,
   length |-> LinksLen(links) + 1 + VarintLen(MessageLen(data)) + MessageLen(data),
   Data |-> data, Links |-> links]

(* --------------------------- utils/persist ---------------------------- *)
\* the address persist computes for the buffer under the given config
CidOf(buffer, codec, cidVersion) ==
  [code |-> codec, version |-> cidVersion, bytes |-> buffer]

\* the store after persist: the bytes are put unless onlyHash is set
StoreAfterPersist(st, cid, onlyHash) == IF onlyHash THEN st ELSE st \cup {cid}

(* ----------------- buffer-importer.js: one leaf task ------------------ *)
\* faulty variant: a raw leaf keeps the caller's cidVersion (line 35 missing)
LeafDescriptorCallerVersion(buffer) ==
  IF options.rawLeaves
  THEN [cid |-> CidOf(RawBytes(buffer), RawCode, options.cidVersion),
        unixfs |-> NoUnixfs,
        size |-> RawBytes(buffer).length,
        single |-> FALSE, path |-> Undefined]
  ELSE LET unixfs == NewUnixFS(options.leafType, buffer, file.mtime, file.mode)
           buf == encode(marshal(unixfs), <<>>)
       IN [cid |-> CidOf(buf, DagPbCode, options.cidVersion),
           unixfs |-> unixfs,
           size |-> buf.length,
           single |-> FALSE, path |-> Undefined]

\* the descriptor the task of chunk `buffer` returns
LeafDescriptor(buffer) ==
  IF options.rawLeaves
  THEN [cid |-> CidOf(RawBytes(buffer), RawCode, 1),
        unixfs |-> NoUnixfs,
        size |-> RawBytes(buffer).length,
        single |-> FALSE, path |-> Undefined]
  ELSE LET unixfs == NewUnixFS(options.leafType, buffer, file.mtime, file.mode)
           buf == encode(marshal(unixfs), <<>>)
       IN [cid |-> CidOf(buf, DagPbCode, options.cidVersion),
           unixfs |-> unixfs,
           size |-> buf.length,
           single |-> FALSE, path |-> Undefined]

(* ------------------------------ the heap ------------------------------ *)
NoCid == CidOf(RawBytes(0), Undefined, 0)

NoDescriptor ==
  [cid |-> NoCid, unixfs |-> NoUnixfs, size |-> 0, single |-> FALSE,
   path |-> Undefined]

Deref(r) ==
  IF r.k = "leaf" THEN leaves[r.i]
  ELSE IF r.k = "node" THEN nodes[r.i] ELSE NoDescriptor

DerefAll(rs) == [i \in 1..Len(rs) |-> Deref(rs[i])]

(* ---------------- index.js: reducer, the general path ----------------- *)
\* faulty variant: the filter lets every child through
KeepAll(leaf) == TRUE

\* the filter of lines 136-146: the children that get a link
Keep(leaf) ==
  \/ leaf.cid.code = RawCode /\ leaf.size # 0
  \/ leaf.unixfs.present /\ leaf.unixfs.data = NoData /\ fileSize(leaf.unixfs) # 0
  \/ leaf.unixfs.present /\ leaf.unixfs.data # NoData /\ leaf.unixfs.data # 0

RECURSIVE Filter(_)
Filter(ls) ==
  IF ls = <<>> THEN <<>>
  ELSE (IF Keep(Head(ls)) THEN <<Head(ls)>> ELSE <<>>) \o Filter(Tail(ls))

\* faulty variant: every child is accounted with its physical size
BlockSizePhysical(leaf) == leaf.size

\* faulty variant: an intermediate node's declared length is not looked up
BlockSizeInlineOnly(leaf) ==
  IF leaf.cid.code = RawCode THEN leaf.size
  ELSE IF ~leaf.unixfs.present \/ leaf.unixfs.data = NoData THEN 0
  ELSE leaf.unixfs.data

\* the argument of f.addBlockSize in the map of lines 147-172
BlockSize(leaf) ==
  IF leaf.cid.code = RawCode THEN leaf.size
  ELSE IF ~leaf.unixfs.present \/ leaf.unixfs.data = NoData
       THEN (IF leaf.unixfs.present /\ fileSize(leaf.unixfs) # 0
             THEN fileSize(leaf.unixfs) ELSE 0)
       ELSE leaf.unixfs.data

\* faulty variant: the link carries the child's logical contribution
LinkLogical(leaf) ==
  [Name |-> "", Tsize |-> BlockSize(leaf), Hash |-> leaf.cid]

\* the link the map of lines 147-172 returns
Link(leaf) == [Name |-> "", Tsize |-> leaf.size, Hash |-> leaf.cid]

\* faulty variant: the links are built last child first
LinksReversed(kept) ==
  [i \in 1..Len(kept) |-> Link(kept[Len(kept) + 1 - i])]

Links(kept) == [i \in 1..Len(kept) |-> Link(kept[i])]

RECURSIVE AddBlockSizes(_, _)
AddBlockSizes(f, kept) ==
  IF kept = <<>> THEN f
  ELSE AddBlockSizes(addBlockSize(f, BlockSize(Head(kept))), Tail(kept))

RECURSIVE SumTsize(_)
SumTsize(ls) == IF ls = <<>> THEN 0 ELSE Head(ls).Tsize + SumTsize(Tail(ls))

\* faulty variant: the node's own serialized length is left out
NodeSizeChildrenOnly(buffer, links) == SumTsize(links)

\* size of line 185
NodeSize(buffer, links) == buffer.length + SumTsize(links)

\* lines 128-186: what a general-path call returns and does
GeneralPath(children) ==
  LET kept == Filter(children)
      f == AddBlockSizes(NewUnixFS("file", NoData, file.mtime, file.mode), kept)
      links == Links(kept)
      buffer == encode(marshal(f), links)
      cid == CidOf(buffer, DagPbCode, options.cidVersion)
  IN [ok |-> TRUE, error |-> Undefined, single |-> FALSE, upgraded |-> FALSE,
      leaf |-> NoDescriptor,
      persisted |-> {cid},
      result |-> [cid |-> cid, path |-> file.path, unixfs |-> f,
                  size |-> NodeSize(buffer, links), single |-> FALSE]]

(* -------------- index.js: reducer, the single-leaf path --------------- *)
\* faulty variant: the single flag is not looked at
IsSingleLeafByCount(children) ==
  Len(children) = 1 /\ options.reduceSingleLeafToSelf

\* line 75
IsSingleLeaf(children) ==
  Len(children) = 1 /\ children[1].single /\ options.reduceSingleLeafToSelf

\* faulty variant: a bare leaf is framed whether or not metadata is declared
NeedsUpgradeAlways(leaf) == leaf.cid.code = RawCode

\* line 78
NeedsUpgrade(leaf) ==
  leaf.cid.code = RawCode /\ (file.mtime # Undefined \/ file.mode # Undefined)

\* faulty variant: the rewrite also sets the leaf's path
UpgradedLeafRelabelled(leaf) ==
  LET unixfs == NewUnixFS("file", leaf.cid.bytes.length, file.mtime, file.mode)
      buffer == encode(marshal(unixfs), <<>>)
  IN [leaf EXCEPT !.unixfs = unixfs,
                  !.cid = CidOf(buffer, DagPbCode, options.cidVersion),
                  !.size = buffer.length,
                  !.path = file.path]

\* lines 81-117: the leaf object after the in-place rewrite
UpgradedLeaf(leaf) ==
  LET unixfs == NewUnixFS("file", leaf.cid.bytes.length, file.mtime, file.mode)
      buffer == encode(marshal(unixfs), <<>>)
  IN [leaf EXCEPT !.unixfs = unixfs,
                  !.cid = CidOf(buffer, DagPbCode, options.cidVersion),
                  !.size = buffer.length]

\* lines 120-125
SingleResult(leaf) ==
  [cid |-> leaf.cid, path |-> file.path, unixfs |-> leaf.unixfs,
   size |-> leaf.size, single |-> FALSE]

\* lines 75-126: what a single-leaf call returns and does; block.get of a
\* block the store does not hold rejects
SinglePath(children) ==
  LET leaf == children[1]
  IN IF ~NeedsUpgrade(leaf)
     THEN [ok |-> TRUE, error |-> Undefined, single |-> TRUE,
           upgraded |-> FALSE, leaf |-> leaf,
           persisted |-> {}, result |-> SingleResult(leaf)]
     ELSE IF leaf.cid \notin store
     THEN [ok |-> FALSE, error |-> "ERR_NOT_FOUND", single |-> TRUE,
           upgraded |-> FALSE, leaf |-> leaf,
           persisted |-> {}, result |-> NoDescriptor]
     ELSE [ok |-> TRUE, error |-> Undefined, single |-> TRUE,
           upgraded |-> TRUE,
           leaf |-> UpgradedLeaf(leaf),
           persisted |-> {UpgradedLeaf(leaf).cid},
           result |-> SingleResult(UpgradedLeaf(leaf))]

\* lines 74-187
reducer(children) ==
  IF IsSingleLeaf(children) THEN SinglePath(children) ELSE GeneralPath(children)

\* the error a rejected persist of the n-th reducer call rejects with
ReduceError(n) == "persist rejected for node " \o ToString(n)

\* faulty variant: the rejection is caught and the descriptor returned anyway
PersistRejectsSwallowed(children, r, n) ==
  [r EXCEPT !.persisted = {}, !.error = ReduceError(n)]

\* lines 111 and 179: the awaited persist of the n-th call rejects and the
\* rejection leaves reducer; r is what the call does when persist resolves.
\* Nothing is written and nothing returned; on the single-leaf path line 83
\* has already replaced the leaf's unixfs, lines 111 and 117 have not run
PersistRejects(children, r, n) ==
  [r EXCEPT !.ok = FALSE,
            !.error = ReduceError(n),
            !.upgraded = FALSE,
            !.persisted = {},
            !.result = NoDescriptor,
            !.leaf = IF r.single
                     THEN [children[1] EXCEPT !.unixfs = r.leaf.unixfs]
                     ELSE r.leaf]

\* the n-th reducer call settles, its persist (if it makes one) resolving
\* or rejecting
Settled(children, rejects, n) ==
  IF rejects THEN PersistRejects(children, reducer(children), n)
  ELSE reducer(children)

(* ------------------------------- Init --------------------------------- *)
Init ==
  /\ file \in [content : SeqsUpTo(0..MaxChunkLen, MaxChunks),
               path : {FilePath},
               mtime : {Undefined, "mtime"},
               mode : {Undefined, "mode"}]
  /\ options \in [rawLeaves : BOOLEAN,
                  reduceSingleLeafToSelf : BOOLEAN,
                  blockWriteConcurrency : 1..MaxConcurrency,
                  cidVersion : {0, 1},
                  onlyHash : BOOLEAN,
                  leafType : {"file"},
                  strategy : StrategyNames \cup {"other"},
                  maxChildrenPerNode : 2..MaxChildren]
  /\ store = {}
  /\ pos = 0
  /\ tasks = <<>>
  /\ nexti = 1
  /\ leaves = <<>>
  /\ nodes = <<>>
  /\ count = -1
  /\ previous = NoRef
  /\ entry = NoRef
  /\ bpc = "loop"
  /\ yielded = <<>>
  /\ src = <<>>
  /\ outq = <<>>
  /\ ended = FALSE
  /\ spc = "start"
  /\ puts = 0
  /\ overtaken = FALSE
  /\ calls = <<>>
  /\ progress = <<>>
  /\ root = NoRef
  /\ error = Undefined

(* ------------------------ index.js: fileBuilder ----------------------- *)
\* faulty variant: the name is not checked (lines 198-200 missing)
fileBuilderUnchecked ==
  /\ spc = "start"
  /\ spc' = "think"
  /\ UNCHANGED <<file, options, store, pos, tasks, nexti, leaves, nodes,
                 count, previous, entry, bpc, yielded, src, outq, ended, puts,
                 overtaken, calls, progress, root, error>>

\* lines 195-203: the strategy is looked up by name before anything runs
fileBuilder ==
  /\ spc = "start"
  /\ IF options.strategy \in StrategyNames
     THEN spc' = "think" /\ error' = error
     ELSE spc' = "failed" /\ error' = "ERR_BAD_STRATEGY"
  /\ UNCHANGED <<file, options, store, pos, tasks, nexti, leaves, nodes,
                 count, previous, entry, bpc, yielded, src, outq, ended, puts,
                 overtaken, progress, calls, root>>

(* ------------- buffer-importer.js / it-parallel-batch ----------------- *)
\* faulty variant: one task more than the configured concurrency
BatchSizePlusOne == options.blockWriteConcurrency + 1

\* index.js line 45: the batch size handed to parallelBatch
BatchSize == options.blockWriteConcurrency

\* faulty variant: progress is reported after the chunk has been framed
ProgressOfFramed(buffer) == LeafDescriptor(buffer).size

\* line 22: the length options.progress is called with for chunk `buffer`
ProgressOf(buffer) == RawBytes(buffer).length

\* the error a rejected persist of chunk idx's task rejects with
TaskError(idx) == "persist rejected for chunk " \o ToString(idx)

\* parallelBatch takes the next BatchSize tasks from bufferImporter (one per
\* chunk of file.content) and starts them all: each runs up to its persist,
\* so progress is reported for each, in task order
StartBatch ==
  /\ spc = "pull" /\ bpc = "loop"
  /\ nexti > Len(tasks)
  /\ pos < Len(file.content)
  /\ LET m == Min(BatchSize, Len(file.content) - pos)
     IN /\ tasks' = [k \in 1..m |-> [idx |-> pos + k, st |-> "running"]]
        /\ pos' = pos + m
        /\ progress' = progress \o
             [k \in 1..m |-> [length |-> ProgressOf(file.content[pos + k]),
                              path |-> file.path]]
  /\ nexti' = 1
  /\ UNCHANGED <<file, options, store, leaves, nodes, count, previous, entry,
                 bpc, yielded, src, outq, ended, spc, puts, overtaken, calls,
                 root, error>>

\* faulty variant: a finishing task takes the chunk of the first slot of the
\* batch that no task has settled yet, so a task that overtakes gets
\* another task's chunk
TaskBufferByCompletion(k) ==
  LET settled == Cardinality({h \in 1..Len(tasks) : tasks[h].st # "running"})
  IN file.content[tasks[settled + 1].idx]

\* lines 20-21: the chunk the k-th task of the batch closed over
TaskBuffer(k) == file.content[tasks[k].idx]

\* a started task finishes (lines 21-52 of buffer-importer.js): the bytes
\* are persisted and the descriptor object exists from here on
TaskComplete(k) ==
  /\ k \in 1..Len(tasks)
  /\ tasks[k].st = "running"
  /\ LET d == LeafDescriptor(TaskBuffer(k))
     IN /\ leaves' = leaves @@ (tasks[k].idx :> d)
        /\ store' = StoreAfterPersist(store, d.cid, options.onlyHash)
        /\ puts' = IF options.onlyHash THEN puts ELSE puts + 1
  /\ tasks' = [tasks EXCEPT ![k].st = "done"]
  /\ overtaken' = (overtaken \/ \E h \in 1..(k - 1) : tasks[h].st = "running")
  /\ UNCHANGED <<file, options, pos, nexti, nodes, count, previous, entry,
                 bpc, yielded, src, outq, ended, spc, calls, progress, root,
                 error>>

\* line 48 of buffer-importer.js: the persist of a started task rejects;
\* nothing is written and no descriptor comes to exist
TaskFail(k) ==
  /\ k \in 1..Len(tasks)
  /\ tasks[k].st = "running"
  /\ tasks' = [tasks EXCEPT ![k].st = "failed"]
  /\ UNCHANGED <<file, options, store, pos, nexti, leaves, nodes, count,
                 previous, entry, bpc, yielded, src, outq, ended, spc, puts,
                 overtaken, calls, progress, root, error>>

(* ---------------------- index.js: buildFileBatch ---------------------- *)
\* `yield r`: the consumer that was waiting receives r
Yield(r) ==
  /\ yielded' = Append(yielded, r)
  /\ src' = Append(src, r)
  /\ spc' = "think"

\* faulty variant: the buffered first entry is not flushed when the second arrives
BatchStepNoFlush(c, prev) == IF c = 0 THEN "buffer" ELSE "pass"

\* faulty variant: every entry is put in previous, none is passed on
BatchStepAlwaysBuffer(c, prev) == "buffer"

\* faulty variant: the first entry is yielded at once instead of being buffered
BatchStepNoBuffer(c, prev) ==
  IF c = 1 /\ prev # NoRef THEN "flush" ELSE "pass"

\* lines 48-56: what the loop body does with the entry numbered c
BatchStep(c, prev) ==
  IF c = 0 THEN "buffer"
  ELSE IF c = 1 /\ prev # NoRef THEN "flush" ELSE "pass"

\* line 45: parallelBatch awaits the results of a batch in task order
Awaited == nexti

\* lines 45-56: the loop body runs on the next in-order result
BatchEntry ==
  /\ spc = "pull" /\ bpc = "loop"
  /\ nexti <= Len(tasks)
  /\ tasks[Awaited].st = "done"
  /\ nexti' = nexti + 1
  /\ count' = count + 1
  /\ LET e == LeafRef(tasks[Awaited].idx)
         step == BatchStep(count + 1, previous)
     IN IF step = "buffer"
        THEN /\ previous' = e
             /\ UNCHANGED <<entry, bpc, yielded, src, spc>>
        ELSE IF step = "flush"
        THEN /\ Yield(previous)
             /\ entry' = e
             /\ bpc' = "line52"
             /\ UNCHANGED previous
        ELSE /\ Yield(e)
             /\ UNCHANGED <<entry, bpc, previous>>
  /\ UNCHANGED <<file, options, store, pos, tasks, leaves, nodes, outq, ended,
                 puts, overtaken, progress, calls, root, error>>

\* line 45: the next in-order result is a rejection; the for await throws
\* out of buildFileBatch (lines 59-62 are not reached) and the strategy
\* that was waiting for a descriptor is rejected with the task's error
BatchThrow ==
  /\ spc = "pull" /\ bpc = "loop"
  /\ nexti <= Len(tasks)
  /\ tasks[Awaited].st = "failed"
  /\ bpc' = "failed"
  /\ spc' = "failed"
  /\ error' = TaskError(tasks[Awaited].idx)
  /\ UNCHANGED <<file, options, store, pos, tasks, nexti, leaves, nodes,
                 count, previous, entry, yielded, src, outq, ended, puts,
                 overtaken, calls, progress, root>>

\* lines 53-56: resumed after the yield of line 52
BatchAfterPrevious ==
  /\ spc = "pull" /\ bpc = "line52"
  /\ previous' = NoRef
  /\ Yield(entry)
  /\ entry' = NoRef
  /\ bpc' = "loop"
  /\ UNCHANGED <<file, options, store, pos, tasks, nexti, leaves, nodes,
                 count, outq, ended, puts, overtaken, progress, calls, root,
                 error>>

\* lines 59-62: the source is exhausted
BatchEnd ==
  /\ spc = "pull" /\ bpc = "loop"
  /\ nexti > Len(tasks)
  /\ pos = Len(file.content)
  /\ IF previous # NoRef
     THEN /\ leaves' = [leaves EXCEPT ![previous.i].single = TRUE]
          /\ Yield(previous)
          /\ bpc' = "line61"
          /\ UNCHANGED ended
     ELSE /\ bpc' = "done"
          /\ ended' = TRUE
          /\ spc' = "think"
          /\ UNCHANGED <<leaves, yielded, src>>
  /\ UNCHANGED <<file, options, store, pos, tasks, nexti, nodes, count,
                 previous, entry, outq, puts, overtaken, progress, calls,
                 root, error>>

\* line 63: resumed after the yield of line 61, the generator returns
BatchReturn ==
  /\ spc = "pull" /\ bpc = "line61"
  /\ bpc' = "done"
  /\ ended' = TRUE
  /\ spc' = "think"
  /\ UNCHANGED <<file, options, store, pos, tasks, nexti, leaves, nodes,
                 count, previous, entry, yielded, src, outq, puts, overtaken,
                 progress, calls, root, error>>

(* ------------ the tree strategies: flat, balanced, trickle ------------ *)
\* the strategy asks the leaf sequence for its next descriptor
StrategyPull ==
  /\ spc = "think"
  /\ ~ended
  /\ options.strategy = "balanced" => Len(src) < options.maxChildrenPerNode
  /\ spc' = "pull"
  /\ UNCHANGED <<file, options, store, pos, tasks, nexti, leaves, nodes,
                 count, previous, entry, bpc, yielded, src, outq, ended, puts,
                 overtaken, progress, calls, root, error>>

\* the effect of `await reduce(group)` on the heap, the store and the log;
\* r is what reducer returned, NodeRef(Len(nodes) + 1) the new descriptor
ReduceEffects(group, r) ==
  /\ calls' = Append(calls, [children |-> group,
                             before |-> DerefAll(group),
                             ok |-> r.ok, error |-> r.error,
                             single |-> r.single,
                             upgraded |-> r.upgraded,
                             persisted |-> r.persisted,
                             result |-> r.result])
  /\ store' = IF options.onlyHash THEN store ELSE store \cup r.persisted
  /\ puts' = IF options.onlyHash THEN puts ELSE puts + Cardinality(r.persisted)
  /\ leaves' = IF r.single
               THEN [leaves EXCEPT ![group[1].i] = r.leaf]
               ELSE leaves
  /\ IF r.ok
     THEN nodes' = Append(nodes, r.result) /\ UNCHANGED error
     ELSE nodes' = nodes /\ error' = r.error

\* flat: one reducer call over every leaf, once the sequence has ended
ReduceFlat ==
  /\ spc = "think" /\ options.strategy = "flat"
  /\ ended /\ calls = <<>>
  /\ \E rejects \in BOOLEAN :
     LET r == Settled(DerefAll(src), rejects, Len(calls) + 1)
     IN /\ rejects => reducer(DerefAll(src)).persisted # {}
        /\ ReduceEffects(src, r)
        /\ src' = <<>>
        /\ outq' = IF r.ok THEN <<NodeRef(Len(nodes) + 1)>> ELSE outq
        /\ spc' = IF r.ok THEN "think" ELSE "failed"
  /\ UNCHANGED <<file, options, pos, tasks, nexti, count, previous, entry,
                 bpc, yielded, ended, overtaken, progress, root>>

\* balanced: one reducer call per group of maxChildrenPerNode descriptors
ReduceBalanced ==
  /\ spc = "think" /\ options.strategy = "balanced"
  /\ src # <<>>
  /\ Len(src) >= options.maxChildrenPerNode \/ ended
  /\ \E rejects \in BOOLEAN :
     LET n == Min(options.maxChildrenPerNode, Len(src))
         group == SubSeq(src, 1, n)
         r == Settled(DerefAll(group), rejects, Len(calls) + 1)
     IN /\ rejects => reducer(DerefAll(group)).persisted # {}
        /\ ReduceEffects(group, r)
        /\ src' = SubSeq(src, n + 1, Len(src))
        /\ outq' = IF r.ok THEN Append(outq, NodeRef(Len(nodes) + 1)) ELSE outq
        /\ spc' = IF r.ok THEN "think" ELSE "failed"
  /\ UNCHANGED <<file, options, pos, tasks, nexti, count, previous, entry,
                 bpc, yielded, ended, overtaken, progress, root>>

\* balanced: a level with more than one parent is reduced again
BalancedLevelUp ==
  /\ spc = "think" /\ options.strategy = "balanced"
  /\ ended /\ src = <<>> /\ Len(outq) > 1
  /\ src' = outq
  /\ outq' = <<>>
  /\ UNCHANGED <<file, options, store, pos, tasks, nexti, leaves, nodes,
                 count, previous, entry, bpc, yielded, ended, spc, puts,
                 overtaken, progress, calls, root, error>>

\* trickle: a reducer call over some run of adjacent descriptors, the new
\* parent taking their place, until one descriptor remains; a lone
\* descriptor is reduced only once the sequence has ended, and the last
\* call allowed takes all that is left
ReduceTrickle(i, j) ==
  /\ spc = "think" /\ options.strategy = "trickle"
  /\ Len(calls) < MaxReduces
  /\ ~(ended /\ Len(src) = 1 /\ calls # <<>>)
  /\ IF src = <<>>
     THEN ended /\ calls = <<>> /\ i = 1 /\ j = 0
     ELSE 1 <= i /\ i <= j /\ j <= Len(src) /\ (i = j => ended)
  /\ Len(calls) + 1 = MaxReduces => ended /\ i = 1 /\ j = Len(src)
  /\ \E rejects \in BOOLEAN :
     LET group == SubSeq(src, i, j)
         r == Settled(DerefAll(group), rejects, Len(calls) + 1)
     IN /\ rejects => reducer(DerefAll(group)).persisted # {}
        /\ ReduceEffects(group, r)
        /\ src' = IF r.ok
                  THEN SubSeq(src, 1, i - 1) \o <<NodeRef(Len(nodes) + 1)>>
                         \o SubSeq(src, j + 1, Len(src))
                  ELSE src
        /\ spc' = IF r.ok THEN "think" ELSE "failed"
  /\ UNCHANGED <<file, options, pos, tasks, nexti, count, previous, entry,
                 bpc, yielded, outq, ended, overtaken, progress, root>>

\* the strategy returns the one descriptor that remains
Finish ==
  /\ spc = "think" /\ ended
  /\ CASE options.strategy = "flat" ->
            calls # <<>> /\ root' = outq[1]
       [] options.strategy = "balanced" ->
            src = <<>> /\ Len(outq) <= 1
            /\ root' = IF outq = <<>> THEN NoRef ELSE outq[1]
       [] OTHER ->
            calls # <<>> /\ Len(src) = 1 /\ root' = src[1]
  /\ spc' = "done"
  /\ UNCHANGED <<file, options, store, pos, tasks, nexti, leaves, nodes,
                 count, previous, entry, bpc, yielded, src, outq, ended, puts,
                 overtaken, progress, calls, error>>

Next ==
  \/ fileBuilder
  \/ StartBatch
  \/ \E k \in 1..MaxConcurrency : TaskComplete(k)
  \/ \E k \in 1..MaxConcurrency : TaskFail(k)
  \/ BatchEntry
  \/ BatchThrow
  \/ BatchAfterPrevious
  \/ BatchEnd
  \/ BatchReturn
  \/ StrategyPull
  \/ ReduceFlat
  \/ ReduceBalanced
  \/ BalancedLevelUp
  \/ \E i \in 1..MaxChunks, j \in 0..MaxChunks : ReduceTrickle(i, j)
  \/ Finish

Spec == Init /\ [][Next]_vars

\* the builds of Init that differ in what parallelBatch and buildFileBatch
\* look at: the number of chunks, the concurrency, the strategy that pulls,
\* and whether and how a lone leaf is promoted
FairInit ==
  /\ Init
  /\ \A i \in 1..Len(file.content) : file.content[i] = 1
  /\ file.mode = Undefined
  /\ options.cidVersion = 1

\* a step of parallelBatch or buildFileBatch itself, as opposed to one of a
\* task or of the strategy
BatcherStep ==
  \/ StartBatch
  \/ BatchEntry
  \/ BatchThrow
  \/ BatchAfterPrevious
  \/ BatchEnd
  \/ BatchReturn

\* the persist of a task in flight resolves or rejects
TaskSettles == \E k \in 1..MaxConcurrency : TaskComplete(k) \/ TaskFail(k)

\* the event loop runs every continuation that is ready and every persist
\* settles: fileBuilder runs, a started task settles, the batcher takes the
\* step it can take, and a strategy that can ask for the next descriptor
\* does; when a strategy calls the reducer is left to it
FairSpec ==
  /\ FairInit /\ [][Next]_vars
  /\ WF_vars(fileBuilder)
  /\ WF_vars(TaskSettles)
  /\ WF_vars(BatcherStep)
  /\ WF_vars(StrategyPull)

(* =========================== the claims =============================== *)
GeneralCalls == {n \in 1..Len(calls) : calls[n].ok /\ ~calls[n].single}

\* the reducer calls whose persist rejected
RejectedCalls == {n \in 1..Len(calls) : calls[n].error = ReduceError(n)}
SingleCalls == {n \in 1..Len(calls) : calls[n].single}

\* every descriptor object that exists
Descriptors ==
  {leaves[i] : i \in DOMAIN leaves} \cup {nodes[i] : i \in 1..Len(nodes)}

\* the serialized lengths of all nodes reachable from an address, the node
\* itself included, each counted once per link path that reaches it
RECURSIVE TreeSize(_)
TreeSize(cid) ==
  LET RECURSIVE Below(_)
      Below(ls) ==
        IF ls = <<>> THEN 0 ELSE TreeSize(Head(ls).Hash) + Below(Tail(ls))
  IN cid.bytes.length + Below(cid.bytes.Links)

\* the number of file content bytes in the subtree under an address
RECURSIVE Content(_)
Content(cid) ==
  LET RECURSIVE Below(_)
      Below(ls) ==
        IF ls = <<>> THEN 0 ELSE Content(Head(ls).Hash) + Below(Tail(ls))
  IN IF ~cid.bytes.pb THEN cid.bytes.length
     ELSE (IF cid.bytes.Data.Data # NoData THEN cid.bytes.Data.Data ELSE 0)
          + Below(cid.bytes.Links)

\* the children the claims call retained: a bare leaf with nonzero size, a
\* framed node with no inline data and nonzero declared length, or a framed
\* leaf with non-empty inline data
Contributes(d) ==
  \/ ~d.unixfs.present /\ d.size > 0
  \/ d.unixfs.present /\ d.unixfs.data = NoData
       /\ SumSeq(d.unixfs.blockSizes) > 0
  \/ d.unixfs.present /\ d.unixfs.data > 0

RECURSIVE Retained(_)
Retained(ds) ==
  IF ds = <<>> THEN <<>>
  ELSE (IF Contributes(Head(ds)) THEN <<Head(ds)>> ELSE <<>>)
       \o Retained(Tail(ds))

RECURSIVE SumSizes(_)
SumSizes(ds) == IF ds = <<>> THEN 0 ELSE Head(ds).size + SumSizes(Tail(ds))

RECURSIVE NonZero(_)
NonZero(ns) ==
  IF ns = <<>> THEN <<>>
  ELSE (IF Head(ns) # 0 THEN <<Head(ns)>> ELSE <<>>) \o NonZero(Tail(ns))

AllLeafRefs == [i \in 1..Len(file.content) |-> LeafRef(i)]

\* C1: buildFileBatch yields the leaf descriptors in chunk index order, each
\* built from its own chunk, none twice, and when it has returned it has
\* yielded one per chunk, whatever order the tasks finished in.
C1_YieldsEveryLeafInOrder ==
  /\ \A i \in 1..Len(yielded) :
       /\ yielded[i] = LeafRef(i)
       /\ i \in DOMAIN leaves
       /\ Content(leaves[i].cid) = file.content[i]
  /\ bpc = "done" => Len(yielded) = Len(file.content)

C1_Witness ==
  /\ bpc = "done" /\ overtaken
  /\ options.blockWriteConcurrency > 1
  /\ Len(yielded) = MaxChunks

\* C2: a leaf descriptor has single = true exactly when the leaf sequence
\* ended after one result; with two or more results no descriptor, the
\* buffered first one included, has single set.
C2_SingleIffOnlyResult ==
  /\ \A i \in DOMAIN leaves :
       leaves[i].single <=> (i = 1 /\ count = 0 /\ bpc \in {"line61", "done"})
  /\ \A i \in 1..Len(yielded) :
       Deref(yielded[i]).single <=> (count = 0 /\ bpc \in {"line61", "done"})
  /\ bpc = "done" /\ count = 0 => yielded = <<LeafRef(1)>>

C2_Witness ==
  /\ bpc = "done" /\ count = 0
  /\ Len(yielded) = 1 /\ Deref(yielded[1]).single

\* C3: a descriptor the general path returns has size = the serialized
\* length of the new node + the sizes of the retained children, and every
\* descriptor's size is the sum of the serialized lengths of all nodes
\* reachable from it through links.
C3_SizeInvariant ==
  /\ \A n \in GeneralCalls :
       calls[n].result.size =
         calls[n].result.cid.bytes.length + SumSizes(Retained(calls[n].before))
  /\ \A d \in Descriptors : d.size = TreeSize(d.cid)

C3_Witness ==
  /\ spc = "done" /\ root # NoRef
  /\ \E l \in 1..Len(Deref(root).cid.bytes.Links) :
       Deref(root).cid.bytes.Links[l].Hash.bytes.Links # <<>>
  /\ Deref(root).size = TreeSize(Deref(root).cid)

NoMetadata == file.mtime = Undefined /\ file.mode = Undefined

\* a finished build of a one-chunk file with reduceSingleLeafToSelf set and
\* neither mtime nor mode declared
C4_Case ==
  /\ spc = "done"
  /\ Len(file.content) = 1
  /\ options.reduceSingleLeafToSelf
  /\ NoMetadata

C4_RootIsLeaf ==
  /\ root # NoRef
  /\ Deref(root).cid = LeafDescriptor(file.content[1]).cid
  /\ Deref(root).size = LeafDescriptor(file.content[1]).size
  /\ Deref(root).path = file.path
  /\ Len(calls) = 1 /\ calls[1].single /\ calls[1].persisted = {}

\* C4 as claimed: the root is the leaf itself, relabelled with the file's
\* path, no parent node is created, and the build makes exactly one store
\* write.
C4_Original == C4_Case => C4_RootIsLeaf /\ puts = 1

\* C4 as amended: the root is the leaf itself, relabelled with the file's
\* path, no parent node is created, and the build makes exactly one store
\* write (the leaf) unless onlyHash is set, in which case it makes none.
C4_SingleLeafPromotion ==
  C4_Case =>
    /\ C4_RootIsLeaf
    /\ puts = (IF options.onlyHash THEN 0 ELSE 1)
    /\ store = (IF options.onlyHash THEN {}
                ELSE {LeafDescriptor(file.content[1]).cid})

C4_Witness ==
  /\ C4_Case /\ ~options.onlyHash /\ options.rawLeaves
  /\ puts = 1 /\ Deref(root).cid \in store
  /\ Deref(root).cid.code = RawCode

\* C5: when the sole single leaf is bare and the file declares mtime or
\* mode, the reducer fetches the leaf's bytes, persists a framed node with
\* that metadata and those bytes under dag-pb with the caller's cidVersion,
\* and returns a descriptor with the framed address (not the bare one), the
\* framed block's length as size, and metadata present.
C5_BareLeafUpgraded ==
  \A n \in SingleCalls \ RejectedCalls :
    LET c == calls[n]
        bare == c.before[1]
        framed == encode(marshal(NewUnixFS("file", bare.size, file.mtime,
                                           file.mode)), <<>>)
    IN bare.cid.code = RawCode /\ ~NoMetadata =>
         /\ c.ok /\ c.upgraded
         /\ c.persisted = {c.result.cid}
         /\ c.result.cid = CidOf(framed, DagPbCode, options.cidVersion)
         /\ c.result.cid # bare.cid
         /\ c.result.size = framed.length
         /\ c.result.unixfs.present
         /\ c.result.unixfs.mtime = file.mtime
         /\ c.result.unixfs.mode = file.mode
         /\ c.result.path = file.path

\* the same, for the builds that write their blocks
C5_UpgradedWhenStored == options.onlyHash \/ C5_BareLeafUpgraded

C5_Reached ==
  \E n \in SingleCalls : calls[n].upgraded /\ calls[n].ok

\* C6: the reducer returns a child as the root, persisting no parent, only
\* when called with exactly one child that has single = true and with
\* reduceSingleLeafToSelf set; every other call persists exactly one new
\* node; so for a file of two or more chunks the single-leaf path is never
\* taken, one-element groups included.
C6_SinglePathOnlyForSoleLeaf ==
  \A n \in 1..Len(calls) :
    LET c == calls[n]
    IN /\ c.single <=> /\ Len(c.before) = 1
                       /\ c.before[1].single
                       /\ options.reduceSingleLeafToSelf
       /\ c.single => /\ Len(file.content) = 1
                      /\ c.children = <<LeafRef(1)>>
                      /\ (c.ok => c.result.cid = Deref(c.children[1]).cid)
       /\ ~c.single /\ n \notin RejectedCalls =>
                       /\ c.ok
                       /\ c.persisted = {c.result.cid}
                       /\ c.result.cid.bytes.pb
                       /\ c.result.cid.bytes.Links = Links(Filter(c.before))
       /\ Len(file.content) >= 2 => ~c.single

C6_Witness ==
  /\ options.reduceSingleLeafToSelf
  /\ Len(file.content) >= 2
  /\ \E n \in GeneralCalls :
       Len(calls[n].before) = 1 /\ calls[n].children[1].k = "leaf"

\* C7: in the general path a child gets a link iff it is a bare leaf with
\* nonzero size, a framed node with no inline data and nonzero declared
\* length, or a framed leaf with non-empty inline data; a child failing all
\* three is in no link and adds nothing to the parent's size.
C7_LinkIffContributes ==
  \A n \in GeneralCalls :
    LET c == calls[n]
        links == c.result.cid.bytes.Links
        kept == Retained(c.before)
    IN /\ Len(links) = Len(kept)
       /\ \A i \in 1..Len(c.before) :
            Contributes(c.before[i]) <=>
              \E l \in 1..Len(links) : links[l].Hash = c.before[i].cid
       /\ c.result.size = c.result.cid.bytes.length + SumSizes(kept)
       /\ c.result.size = c.result.cid.bytes.length + SumTsize(links)

C7_Witness ==
  \E n \in GeneralCalls :
    /\ \E i \in 1..Len(calls[n].before) : ~Contributes(calls[n].before[i])
    /\ \E i \in 1..Len(calls[n].before) : Contributes(calls[n].before[i])

\* C8: in every node the general path builds, the link list and the
\* block-size list have the same length, and the i-th link and the i-th
\* block-size entry belong to the i-th retained child in input order.
C8_LinksAndBlockSizesInChildOrder ==
  \A n \in GeneralCalls :
    LET c == calls[n]
        links == c.result.cid.bytes.Links
        sizes == c.result.cid.bytes.Data.blocksizes
        kept == Retained(c.before)
    IN /\ Len(links) = Len(sizes)
       /\ sizes = c.result.unixfs.blockSizes
       /\ Len(links) = Len(kept)
       /\ \A i \in 1..Len(kept) :
            /\ links[i].Hash = kept[i].cid
            /\ links[i].Name = ""
            /\ sizes[i] = Content(kept[i].cid)

C8_Witness ==
  \E n \in GeneralCalls :
    LET kept == Retained(calls[n].before)
    IN /\ Len(kept) >= 2
       /\ Content(kept[1].cid) # Content(kept[2].cid)
       /\ kept[1].cid # kept[2].cid

\* what the claims call a child's logical contribution
Contribution(d) ==
  IF ~d.unixfs.present THEN d.size
  ELSE IF d.unixfs.data = NoData THEN SumSeq(d.unixfs.blockSizes)
  ELSE d.unixfs.data

\* C9: for each retained child the reducer appends exactly one block-size
\* entry: the physical size of a bare leaf, the declared logical length of
\* a node without inline data, the inline data length of a framed leaf; so
\* when one call reduces all the framed leaves of a file, the parent's
\* block-size list is the list of the non-empty chunk lengths in order.
C9_BlockSizeEntries ==
  \A n \in GeneralCalls :
    LET c == calls[n]
        sizes == c.result.unixfs.blockSizes
        kept == Retained(c.before)
    IN /\ sizes = [i \in 1..Len(kept) |-> Contribution(kept[i])]
       /\ (~options.rawLeaves /\ c.children = AllLeafRefs
             => sizes = NonZero(file.content))

C9_Witness ==
  \E n \in GeneralCalls :
    /\ ~options.rawLeaves
    /\ calls[n].children = AllLeafRefs
    /\ Len(calls[n].result.unixfs.blockSizes) >= 2
    /\ calls[n].result.unixfs.blockSizes[1] # calls[n].result.unixfs.blockSizes[2]
    /\ Len(calls[n].result.unixfs.blockSizes) < Len(file.content)

\* C10 as claimed: for every descriptor carrying metadata with a non-empty
\* logical length, the sum of the recorded child block-sizes equals the
\* logical length of the subtree's content.
C10_Original ==
  \A d \in Descriptors :
    d.unixfs.present /\ fileSize(d.unixfs) # 0 =>
      SumSeq(d.unixfs.blockSizes) = Content(d.cid)

\* C10 as amended: for every descriptor carrying metadata, the sum of the
\* recorded child block-sizes plus the length of the node's own inline data
\* equals the logical length of the subtree's content; a node with links
\* has no inline data, so for it the sum of the block-sizes alone does.
C10_BlockSizesSumToContent ==
  \A d \in Descriptors :
    d.unixfs.present =>
      /\ SumSeq(d.unixfs.blockSizes)
           + (IF d.unixfs.data # NoData THEN d.unixfs.data ELSE 0)
         = Content(d.cid)
      /\ (d.cid.bytes.Links # <<>> =>
            /\ d.unixfs.data = NoData
            /\ SumSeq(d.unixfs.blockSizes) = Content(d.cid))

C10_Witness ==
  /\ spc = "done" /\ root # NoRef
  /\ Len(Deref(root).cid.bytes.Links) >= 2
  /\ \E l \in 1..Len(Deref(root).cid.bytes.Links) :
       Deref(root).cid.bytes.Links[l].Hash.bytes.Links # <<>>
  /\ Content(Deref(root).cid) = SumSeq(file.content)
  /\ Content(Deref(root).cid) >= MaxChunks

\* the tasks of the batch in flight whose persist rejected
FailedTasks == {k \in 1..Len(tasks) : tasks[k].st = "failed"}

\* a build is rejected exactly when it has an error, and then has no root;
\* the error is that of the first rejected task in task order, or that of
\* the reducer call whose persist rejected; a build that returns a root had
\* no rejection; after a rejected task no leaf is marked or yielded as single
C11_Rejected ==
  /\ spc = "failed" <=> error # Undefined
  /\ root # NoRef => spc = "done"
  /\ bpc = "failed" =>
       /\ spc = "failed"
       /\ tasks[nexti].st = "failed"
       /\ error = TaskError(tasks[nexti].idx)
       /\ \A h \in 1..(nexti - 1) : tasks[h].st = "done"
       /\ ~ended
       /\ previous # NoRef =>
            /\ \A i \in 1..Len(yielded) : yielded[i] # previous
            /\ ~Deref(previous).single
  /\ \A n \in RejectedCalls :
       /\ n = Len(calls)
       /\ ~calls[n].ok
       /\ spc = "failed"
       /\ error = ReduceError(n)
  /\ spc = "done" => FailedTasks = {} /\ RejectedCalls = {}
  /\ FailedTasks # {} => \A i \in DOMAIN leaves : ~leaves[i].single

\* C11: when a leaf task's or the reducer's persist rejects, the build is
\* rejected with that error and never returns a root; the blocks written so
\* far stay in the store; the buffered first leaf is not yielded as single.
C11_FailureAbortsBuild ==
  /\ []C11_Rejected
  /\ [][/\ store \subseteq store'
        /\ puts <= puts'
        /\ spc = "failed" => spc' = "failed" /\ root' = NoRef]_vars

C11_Witness ==
  /\ bpc = "failed" /\ spc = "failed"
  /\ previous = LeafRef(1)
  /\ error = TaskError(2)
  /\ leaves[1].cid \in store
  /\ root = NoRef

\* the leaf descriptors as the strategy receives them, from the chunks and
\* the options alone
ExpectedLeaves ==
  [i \in 1..Len(file.content) |->
     [LeafDescriptor(file.content[i]) EXCEPT
        !.single = (Len(file.content) = 1)]]

\* flat: the root from the chunks and the options alone
FlatRoot == reducer(ExpectedLeaves).result

\* balanced: the parents of one level, and the root (a sequence of at most
\* one descriptor), from the chunks and the options alone
RECURSIVE BalancedLevel(_)
BalancedLevel(ds) ==
  IF ds = <<>> THEN <<>>
  ELSE LET n == Min(options.maxChildrenPerNode, Len(ds))
       IN <<reducer(SubSeq(ds, 1, n)).result>>
            \o BalancedLevel(SubSeq(ds, n + 1, Len(ds)))

RECURSIVE BalancedRoot(_)
BalancedRoot(ds) ==
  IF Len(BalancedLevel(ds)) <= 1 THEN BalancedLevel(ds)
  ELSE BalancedRoot(BalancedLevel(ds))

\* any strategy: the descriptor behind a reference, recomputed from the
\* chunks, the options and the grouping the strategy chose (the children of
\* its reducer calls), not from what the run left in the heap
RECURSIVE Recomputed(_)
Recomputed(r) ==
  IF r.k = "leaf" THEN ExpectedLeaves[r.i]
  ELSE LET group == calls[r.i].children
       IN reducer([i \in 1..Len(group) |-> Recomputed(group[i])]).result

SameAddressAndSize(d, e) == d.cid = e.cid /\ d.size = e.size

\* C12: the root address and the root size of a finished build are fixed by
\* the chunks and the options: the same in every run, whatever the
\* interleaving and completion order of the leaf tasks.
C12_RootIsDetermined ==
  spc = "done" =>
    /\ root # NoRef => SameAddressAndSize(Deref(root), Recomputed(root))
    /\ options.strategy = "flat" =>
         root # NoRef /\ SameAddressAndSize(Deref(root), FlatRoot)
    /\ options.strategy = "balanced" =>
         IF file.content = <<>> THEN root = NoRef
         ELSE /\ root # NoRef
              /\ SameAddressAndSize(Deref(root),
                                    BalancedRoot(ExpectedLeaves)[1])

C12_Witness ==
  /\ spc = "done" /\ overtaken
  /\ options.strategy = "balanced"
  /\ Len(file.content) = MaxChunks
  /\ file.content[1] # file.content[2]
  /\ SameAddressAndSize(Deref(root), BalancedRoot(ExpectedLeaves)[1])

\* the leaf tasks that have started and not yet settled
InFlight == Cardinality({k \in 1..Len(tasks) : tasks[k].st = "running"})

\* some chunk has not yet been turned into a result handed to buildFileBatch
Unprocessed == pos < Len(file.content) \/ nexti <= Len(tasks)

\* C13 as claimed: at most blockWriteConcurrency tasks are in flight, and at
\* least one is whenever chunks remain and the consumer is waiting.
C13_Original ==
  /\ InFlight <= options.blockWriteConcurrency
  /\ spc = "pull" /\ Unprocessed => InFlight >= 1

\* C13 as amended: at most blockWriteConcurrency tasks are in flight; and
\* whenever chunks remain, the consumer is waiting and the batcher has no
\* step of its own to take, at least one task is in flight.
C13_BoundedAndNeverIdle ==
  /\ InFlight <= options.blockWriteConcurrency
  /\ spc = "pull" /\ Unprocessed /\ ~ENABLED BatcherStep => InFlight >= 1

C13_Witness ==
  /\ spc = "pull" /\ Unprocessed /\ ~ENABLED BatcherStep
  /\ InFlight = 1 /\ options.blockWriteConcurrency = MaxConcurrency
  /\ pos < Len(file.content)
  /\ tasks[1].st = "running" /\ tasks[2].st = "done"

\* the descriptor of chunk i as its task returned it: what the single-leaf
\* call found, if there was one, else what the heap holds
AsBuilt(i) ==
  IF \E n \in SingleCalls : calls[n].children = <<LeafRef(i)>>
  THEN calls[CHOOSE n \in SingleCalls :
               calls[n].children = <<LeafRef(i)>>].before[1]
  ELSE leaves[i]

\* C14: a leaf built with rawLeaves has the raw codec and address version 1
\* whatever options.cidVersion is; a leaf built without rawLeaves has the
\* dag-pb codec and options.cidVersion; either is in the store unless
\* onlyHash is set.
C14_LeafCodecAndVersion ==
  \A i \in DOMAIN leaves :
    /\ IF options.rawLeaves
       THEN /\ AsBuilt(i).cid.code = RawCode
            /\ AsBuilt(i).cid.version = 1
            /\ ~AsBuilt(i).cid.bytes.pb
       ELSE /\ AsBuilt(i).cid.code = DagPbCode
            /\ AsBuilt(i).cid.version = options.cidVersion
            /\ AsBuilt(i).cid.bytes.pb
    /\ ~options.onlyHash => AsBuilt(i).cid \in store

C14_Witness ==
  /\ options.rawLeaves /\ options.cidVersion = 0 /\ ~options.onlyHash
  /\ Len(file.content) = 1 /\ 1 \in DOMAIN leaves
  /\ \E n \in SingleCalls : calls[n].upgraded
  /\ leaves[1].cid.version = 0
  /\ AsBuilt(1).cid.version = 1 /\ AsBuilt(1).cid \in store

C16_TsizeIsChildSize ==
  /\ \A n \in GeneralCalls :
       LET c == calls[n]
           links == c.result.cid.bytes.Links
           kept == Retained(c.before)
       IN /\ \A i \in 1..Len(links) :
               /\ links[i].Tsize = kept[i].size
               /\ links[i].Tsize = TreeSize(links[i].Hash)
          /\ c.result.size - c.result.cid.bytes.length = SumTsize(links)
  /\ \A d \in Descriptors :
       \A l \in 1..Len(d.cid.bytes.Links) :
         d.cid.bytes.Links[l].Tsize = TreeSize(d.cid.bytes.Links[l].Hash)

C16_Witness ==
  \E n \in GeneralCalls :
    LET kept == Retained(calls[n].before)
    IN /\ Len(kept) = 2
       /\ kept[1].cid.bytes.Links # <<>>
       /\ Contribution(kept[1]) # kept[1].size
       /\ kept[2].unixfs.present /\ kept[2].unixfs.data # NoData
       /\ Contribution(kept[2]) # kept[2].size
       /\ calls[n].result.cid.bytes.Links[1].Tsize = kept[1].size

\* C17: the descriptor a leaf task returns has the length of the bytes
\* handed to persist as its size (the chunk when rawLeaves, else the encoded
\* UnixFS node holding the chunk) and has a unixfs exactly when rawLeaves is
\* off; options.progress is called once per started task, in task order,
\* with the chunk's own length and the file's path.
C17_LeafSizeAndProgress ==
  /\ \A i \in DOMAIN leaves :
       LET d == AsBuilt(i)
           framed == encode(marshal(NewUnixFS(options.leafType,
                                              file.content[i], file.mtime,
                                              file.mode)), <<>>)
       IN /\ i \in 1..pos
          /\ d.size = d.cid.bytes.length
          /\ d.unixfs.present <=> ~options.rawLeaves
          /\ IF options.rawLeaves
             THEN d.cid.bytes = RawBytes(file.content[i])
                  /\ d.size = file.content[i]
             ELSE d.cid.bytes = framed
                  /\ d.size = framed.length
                  /\ d.size > file.content[i]
                  /\ d.unixfs.data = file.content[i]
  /\ progress = [k \in 1..pos |->
                   [length |-> file.content[k], path |-> file.path]]
  /\ Len(progress) = pos

C17_Witness ==
  /\ ~options.rawLeaves
  /\ Len(file.content) = MaxChunks /\ Len(progress) = 2
  /\ progress[1].length = MaxChunkLen /\ progress[2].length = 0
  /\ DOMAIN leaves = {1}
  /\ leaves[1].size > progress[1].length
  /\ FailedTasks = {2}

\* what buildFileBatch holds back: count + 1 results have arrived in its
\* loop, Len(yielded) have been passed on
C18_Buffering ==
  /\ yielded # <<>> => count >= 1 \/ bpc \in {"line61", "done"}
  /\ (count + 1) - Len(yielded) \in {0, 1}
  /\ bpc = "line52" => count = 1 /\ Len(yielded) = 1
  /\ count >= 1 /\ bpc # "line52" =>
       /\ Len(yielded) = count + 1
       /\ previous = NoRef

C18_AllYielded ==
  /\ bpc = "done"
  /\ Len(yielded) = Len(file.content)
  /\ previous = NoRef \/ count = 0

\* the strategy holds descriptors it has not reduced and does not ask for
\* the next one
C18_ConsumerHolds ==
  /\ spc = "think" /\ ~ended
  /\ options.strategy = "balanced"
  /\ Len(src) >= options.maxChildrenPerNode

\* C18: buildFileBatch does not yield the first result before the second
\* has arrived or the sequence has ended, holds back at most one result at
\* any time, and from the second on yields each result as it arrives; and
\* unless the build is rejected or its consumer stops asking, it eventually
\* has yielded one result per chunk and returned, and stays so.
C18_BuffersOneThenStreams ==
  /\ []C18_Buffering
  /\ <>(C18_AllYielded \/ spc = "failed") \/ <>[]C18_ConsumerHolds
  /\ [][C18_AllYielded => C18_AllYielded']_vars

C18_Witness ==
  /\ C18_AllYielded
  /\ Len(yielded) = MaxChunks
  /\ overtaken
  /\ spc # "failed"

\* leaf i has been yielded by buildFileBatch
WasYielded(i) == \E y \in 1..Len(yielded) : yielded[y] = LeafRef(i)

\* this step is a single-leaf call of the reducer on leaf i that takes the
\* branch of line 78
PromotionOf(i) ==
  /\ Len(calls') = Len(calls) + 1
  /\ calls'[Len(calls')].single
  /\ calls'[Len(calls')].children = <<LeafRef(i)>>
  /\ NeedsUpgrade(leaves[i])

\* what one step may do to the descriptor objects
C19_Frame ==
  /\ \A i \in DOMAIN leaves :
       /\ i \in DOMAIN leaves'
       /\ leaves'[i].path = leaves[i].path
       /\ leaves'[i].single # leaves[i].single =>
            ~WasYielded(i) /\ leaves'[i].single
       /\ WasYielded(i) /\ leaves'[i] # leaves[i] => PromotionOf(i)
  /\ \A n \in 1..Len(nodes) : n <= Len(nodes') /\ nodes'[n] = nodes[n]
  /\ Len(calls') = Len(calls) + 1 /\ ~calls'[Len(calls')].single =>
       /\ \A i \in DOMAIN leaves : leaves'[i] = leaves[i]
       /\ \A c \in 1..Len(calls'[Len(calls')].children) :
            LET r == calls'[Len(calls')].children[c]
            IN calls'[Len(calls')].before[c] =
                 (IF r.k = "leaf" THEN leaves'[r.i] ELSE nodes'[r.i])

\* C19: once buildFileBatch has yielded a leaf descriptor no step changes a
\* field of it, except a single-leaf call of the reducer taking the branch
\* of line 78, which rewrites cid, unixfs and size and happens at most
\* once; a general-path call leaves every child as it found it; single is
\* only ever set, and only on a descriptor not yet yielded.
C19_YieldedLeavesAreFrozen ==
  /\ [][C19_Frame]_vars
  /\ [](Cardinality(SingleCalls) <= 1)

C19_Witness ==
  /\ yielded = <<LeafRef(1)>>
  /\ \E n \in SingleCalls :
       /\ calls[n].upgraded
       /\ leaves[1].cid # calls[n].before[1].cid
       /\ leaves[1].size # calls[n].before[1].size
       /\ leaves[1].unixfs # calls[n].before[1].unixfs
       /\ leaves[1].single /\ calls[n].before[1].single

\* the reducer calls that issued block.get (line 81), and the address read
ReadingCalls ==
  {n \in SingleCalls : NeedsUpgrade(calls[n].before[1])}

\* with onlyHash the build writes nothing
C20_NoWriteUnderOnlyHash == options.onlyHash => puts = 0 /\ store = {}

\* C20: every block.get the reducer issues is for an address the build has
\* written to the store before, so none is rejected as not found; and with
\* onlyHash the build writes nothing to the store.
C20_ReadsOnlyWhatWasWritten ==
  /\ \A n \in ReadingCalls :
       /\ calls[n].before[1].cid \in store
       /\ calls[n].error # "ERR_NOT_FOUND"
  /\ C20_NoWriteUnderOnlyHash

\* the same, for the builds that write their blocks
C20_ReadsWhenStored == options.onlyHash \/ C20_ReadsOnlyWhatWasWritten

====
